---- MODULE Spec2Model ----
(***************************************************************************)
(* Model of the cfit per-dataset value cache: Gauss::cacheReal and the     *)
(* cached evaluate path, the Minimizer adapter (cache, up, setUp),         *)
(* Decay3BodyCP::setNormComponents, and the limits and area of Argus.      *)
(*                                                                         *)
(* Doubles are modelled in fixed point: a value v stands for v / Scale.    *)
(* erf and exp are tabulated at the half-sigma points the model uses.      *)
(***************************************************************************)
EXTENDS Integers, Sequences, FiniteSets, TLC

\* ---------------------------------------------------------------- bounds
\* Largest number of dataset entries.
DataSize == 2
\* The shared counter _cacheIdxReal is not advanced beyond this value.
MaxIdx == 3
\* Largest value handed to Minimizer::setUp.
MaxUp == 60
\* Largest norm component handed to Decay3BodyCP::setNormComponents.
MaxNorm == 2

\* ------------------------------------------------------------- constants
Scale == 1000
\* sqrt( pi / 2 ), in fixed point.
SqrtHalfPi == 1253
\* Result of a division by zero.
Inf == 999999
\* Minimizer::_up as left by the constructor.
UnsetUp == -1

\* The Gauss sub-models of the fit.
Models == {"g1", "g2"}
\* The model the Minimizer adapter holds as _pdf.
Pdf == "g1"

\* Values of mu and sigma of each model (parameters 0 and 1).
ParVal == [g1 |-> [mu |-> 0, sigma |-> 1], g2 |-> [mu |-> 1, sigma |-> 2]]

\* Limits handed to the limit setters.
LowerVals == {-1}
UpperVals == {1}

\* The dataset of n entries: entry e holds the value of the variable x.
Dataset(n) == [e \in 1..n |-> ((e % 3) - 1)]

VARIABLES
  data,           \* the Dataset the fit runs on
  gauss,          \* per Gauss model: its fields
  parFixed,       \* per Gauss model: isFixed() of parameter 0 (mu) and 1 (sigma)
  _cacheIdxReal,  \* PdfBase::_cacheIdxReal, shared by all models
  _cacheR,        \* Minimizer::_cacheR
  _cacheC,        \* Minimizer::_cacheC
  _up,            \* Minimizer::_up
  decay,          \* Decay3BodyCP: _nDir, _nCnj, _nXed, _fixedAmp
  ampFixed,       \* Decay3BodyCP: _amp.isFixed()
  argus,          \* Argus: its limits and norm, and the value of chi
  lastSetUp,      \* history: << >>, or << v >> after the last Minimizer::setUp( v )
  ret             \* the last call: its name, arguments and result

vars == <<data, gauss, parFixed, _cacheIdxReal, _cacheR, _cacheC, _up, decay, ampFixed,
          argus, lastSetUp, ret>>

\* ------------------------------------------------------------ arithmetic
Abs(a) == IF a < 0 THEN -a ELSE a

\* Quotient truncated towards zero; a division by zero gives Inf.
FDiv(a, b) ==
  IF b = 0 THEN Inf
  ELSE IF (a < 0) = (b < 0) THEN Abs(a) \div Abs(b)
  ELSE -(Abs(a) \div Abs(b))

\* ( d / sigma ) in units of one half.
Halves(d, s) == (2 * d) \div s

\* erf( r / sqrt 2 ) at r = 0, 1/2, 1, ... 3.
ErfTab == <<0, 383, 683, 866, 954, 988, 997>>
\* exp( - r^2 / 2 ) at r = 0, 1/2, 1, ... 3.
ExpTab == <<1000, 882, 607, 325, 135, 44, 11>>

\* Math::erf( d / ( sigma * sqrt2 ) )
Erf(d, s) ==
  LET h == Halves(d, s)
  IN  IF h < 0 THEN -ErfTab[(-h) + 1] ELSE ErfTab[h + 1]

\* std::exp( - 0.5 * pow( d, 2 ) / pow( sigma, 2 ) )
Exp(d, s) == ExpTab[Abs(Halves(d, s)) + 1]

\* The empty std::map.
EmptyMap == [k \in {} |-> 0]

\* ------------------------------------------------------------------ Gauss
\* Gauss::cache: the norm of g between its limits.
Norm(m, g) ==
  LET vmu    == ParVal[m].mu
      vsigma == ParVal[m].sigma
      argmin == IF g._hasLower THEN Scale + Erf(g._lower - vmu, vsigma) ELSE 0
      argmax == IF g._hasUpper THEN Scale + Erf(g._upper - vmu, vsigma) ELSE 2 * Scale
      factor == vsigma * SqrtHalfPi
  IN  (factor * (argmax - argmin)) \div Scale

cache(m, g) == [g EXCEPT !._norm = Norm(m, g)]

\* Gauss::Gauss
NewGauss(m) ==
  cache(m, [_hasLower |-> FALSE, _hasUpper |-> FALSE, _lower |-> 0, _upper |-> 0,
            _norm |-> 0, _doCache |-> FALSE, _cacheIdx |-> 0])

\* Gauss::evaluate( x )
evaluate(m, g, x) ==
  FDiv(Exp(x - ParVal[m].mu, ParVal[m].sigma) * Scale, g._norm)

\* ------------------------------------------------------------------ Argus
\* The value of the parameter c of the Argus model.
ArgusC == 5

\* 1.0 - std::pow( x / vc, 2 )
ArgusArg(x) == Scale - ((x * x * Scale) \div (ArgusC * ArgusC))

\* std::pow( a, 1.5 ) at the arguments x = 0, 3, 4, 5 give.
Pow15(a) ==
  CASE a = 0 -> 0 [] a = 360 -> 216 [] a = 640 -> 512 [] a = 1000 -> 1000

\* Math::gamma_p( 1.5, t ) at the same arguments.
GammaP(t) ==
  CASE t = 0 -> 0 [] t = 360 -> 132 [] t = 640 -> 266 [] t = 1000 -> 428

\* The closed form shared by Argus::cache and Argus::area, between argmin
\* and argmax: c^2/3 ( argmax^1.5 - argmin^1.5 ) when chi = 0, else
\* c^2 / ( 2 chi^3 ) sqrt( pi / 2 ) ( gamma_p( 1.5, chi^2 argmax ) - gamma_p( 1.5, chi^2 argmin ) ).
ArgusIntegral(chi, argmax, argmin) ==
  LET cSq   == ArgusC * ArgusC
      chiSq == chi * chi
      chi3  == chi * chi * chi
  IN  IF chiSq = 0
        THEN (cSq * (Pow15(argmax) - Pow15(argmin))) \div 3
        ELSE (((cSq * SqrtHalfPi) \div (2 * chi3))
                * (GammaP(chiSq * argmax) - GammaP(chiSq * argmin))) \div Scale

Max(a, b) == IF a > b THEN a ELSE b
Min(a, b) == IF a < b THEN a ELSE b

\* Argus::cache
argusCache(a) ==
  LET lower  == IF a._hasLower THEN Max(a._lower, 0) ELSE 0
      upper  == IF a._hasUpper THEN Min(a._upper, ArgusC) ELSE ArgusC
      argmax == IF a._hasLower THEN ArgusArg(lower) ELSE Scale
      argmin == IF a._hasUpper THEN ArgusArg(upper) ELSE 0
  IN  [a EXCEPT !._norm = ArgusIntegral(a.chi, argmax, argmin)]

\* Argus::Argus, with the parameter chi at the given value.
NewArgus(chi) ==
  argusCache([chi |-> chi, _hasLower |-> FALSE, _hasUpper |-> FALSE,
              _lower |-> 0, _upper |-> 0, _norm |-> 0])

\* Argus::area( min, max )
argusArea(a, min, max) ==
  LET lower  == IF a._hasLower THEN Max(a._lower, 0) ELSE 0
      upper  == IF a._hasUpper THEN Min(a._upper, ArgusC) ELSE ArgusC
      xmin   == Max(min, lower)
      xmax   == Min(max, upper)
      argmax == IF a._hasLower THEN ArgusArg(xmin) ELSE Scale
      argmin == IF a._hasUpper THEN ArgusArg(xmax) ELSE 0
  IN  FDiv(ArgusIntegral(a.chi, argmax, argmin) * Scale, a._norm)

\* Argus::setLowerLimit: the model after the call and whether it threw.
argusSetLowerLimit(a, lower) ==
  IF lower < 0 THEN [a |-> a, threw |-> TRUE]
  ELSE [a |-> argusCache([a EXCEPT !._hasLower = TRUE, !._lower = lower]),
        threw |-> FALSE]

\* Argus::setUpperLimit
argusSetUpperLimit(a, upper) ==
  IF upper < 0 THEN [a |-> a, threw |-> TRUE]
  ELSE [a |-> argusCache([a EXCEPT !._hasUpper = TRUE, !._upper = upper]),
        threw |-> FALSE]

\* Argus::setLimits
argusSetLimitsEager(a, lower, upper) ==
  IF lower < 0 THEN [a |-> a, threw |-> TRUE]
  ELSE IF upper < 0
    THEN [a |-> [a EXCEPT !._hasLower = TRUE, !._lower = lower], threw |-> TRUE]
  ELSE [a |-> argusCache([a EXCEPT !._hasLower = TRUE, !._hasUpper = TRUE,
                                   !._lower = lower, !._upper = upper]),
        threw |-> FALSE]
argusSetLimits(a, lower, upper) ==
  IF lower < 0 THEN [a |-> a, threw |-> TRUE]
  ELSE IF upper < 0 THEN [a |-> a, threw |-> TRUE]
  ELSE [a |-> argusCache([a EXCEPT !._hasLower = TRUE, !._hasUpper = TRUE,
                                   !._lower = lower, !._upper = upper]),
        threw |-> FALSE]

\* The state after the construction of the models, the adapter and the decay
\* model, before any dataset or parameter status is chosen.
Built ==
  /\ gauss = [m \in Models |-> NewGauss(m)]
  /\ _cacheIdxReal = 0
  /\ _cacheR = EmptyMap
  /\ _cacheC = EmptyMap
  /\ _up = UnsetUp
  /\ lastSetUp = << >>
  /\ ret = [op |-> "init"]

\* A composite fit: any dataset, any fixed/floating status of the parameters.
Init ==
  /\ Built
  /\ data \in {Dataset(n) : n \in 0..DataSize}
  /\ parFixed \in [Models -> [1..2 -> BOOLEAN]]
  /\ decay = [_nDir |-> 0, _nCnj |-> 0, _nXed |-> <<0, 0>>, _fixedAmp |-> FALSE]
  /\ ampFixed = FALSE
  /\ argus = NewArgus(0)

\* What a call without a result leaves in ret.
NoRet == [op |-> "void"]

\* The variables the Gauss operations leave alone.
NotGauss == <<data, _up, lastSetUp, decay, ampFixed, argus>>

\* Gauss::setLowerLimit
setLowerLimit(m, lower) ==
  /\ gauss' = [gauss EXCEPT ![m] =
                 cache(m, [@ EXCEPT !._hasLower = TRUE, !._lower = lower])]
  /\ ret' = NoRet
  /\ UNCHANGED <<parFixed, _cacheIdxReal, _cacheR, _cacheC, NotGauss>>

\* Gauss::setUpperLimit
setUpperLimit(m, upper) ==
  /\ gauss' = [gauss EXCEPT ![m] =
                 cache(m, [@ EXCEPT !._hasUpper = TRUE, !._upper = upper])]
  /\ ret' = NoRet
  /\ UNCHANGED <<parFixed, _cacheIdxReal, _cacheR, _cacheC, NotGauss>>

\* Gauss::setLimits
setLimits(m, lower, upper) ==
  /\ gauss' = [gauss EXCEPT ![m] =
                 cache(m, [@ EXCEPT !._hasLower = TRUE, !._hasUpper = TRUE,
                                    !._lower = lower, !._upper = upper])]
  /\ ret' = NoRet
  /\ UNCHANGED <<parFixed, _cacheIdxReal, _cacheR, _cacheC, NotGauss>>

\* Gauss::unsetLowerLimit
unsetLowerLimit(m) ==
  /\ gauss' = [gauss EXCEPT ![m] = cache(m, [@ EXCEPT !._hasLower = FALSE])]
  /\ ret' = NoRet
  /\ UNCHANGED <<parFixed, _cacheIdxReal, _cacheR, _cacheC, NotGauss>>

\* Gauss::unsetUpperLimit
unsetUpperLimit(m) ==
  /\ gauss' = [gauss EXCEPT ![m] = cache(m, [@ EXCEPT !._hasUpper = FALSE])]
  /\ ret' = NoRet
  /\ UNCHANGED <<parFixed, _cacheIdxReal, _cacheR, _cacheC, NotGauss>>

\* Gauss::unsetLimits
unsetLimits(m) ==
  /\ gauss' = [gauss EXCEPT ![m] =
                 cache(m, [@ EXCEPT !._hasLower = FALSE, !._hasUpper = FALSE])]
  /\ ret' = NoRet
  /\ UNCHANGED <<parFixed, _cacheIdxReal, _cacheR, _cacheC, NotGauss>>

\* Parameter::setFixed on parameter p of model m.
setFixed(m, p, fixed) ==
  /\ parFixed' = [parFixed EXCEPT ![m][p] = fixed]
  /\ ret' = NoRet
  /\ UNCHANGED <<gauss, _cacheIdxReal, _cacheR, _cacheC, NotGauss>>

\* Gauss::cacheReal, the test of cacheability: parameters 0 and 1 are fixed.
doCacheMuOnly(fixed) == fixed[1]
doCacheOf(fixed) == fixed[1] /\ fixed[2]

\* _cacheIdx = _cacheIdxReal++ : the index taken and the counter afterwards.
allocIdxStuck(counter) == [idx |-> counter, counter |-> counter]
allocIdxPre(counter) == [idx |-> counter + 1, counter |-> counter + 1]
allocIdx(counter) == [idx |-> counter, counter |-> counter + 1]

\* The loop of Gauss::cacheReal: one value per entry of d, in entry order.
cachedSeqFirst(m, g, d) == [e \in 1..Len(d) |-> evaluate(m, g, d[1])]
cachedSeq(m, g, d) == [e \in 1..Len(d) |-> evaluate(m, g, d[e])]

\* Gauss::cacheReal on model g of name m, with the shared counter at counter.
\* throwAt = 0: no entry throws; throwAt = k: computing entry k throws.
\* Gives the model and the counter after the call, the mapping returned
\* and whether the call threw.
cacheReal(m, g, fixed, counter, throwAt) ==
  LET g1      == [g EXCEPT !._doCache = doCacheOf(fixed)]
      a       == allocIdx(counter)
      g2      == [g1 EXCEPT !._cacheIdx = a.idx]
      \* cached[ _cacheIdx ] comes to exist with the first push_back
      cached  == IF Len(data) = 0 THEN EmptyMap
                 ELSE (g2._cacheIdx :> cachedSeq(m, g2, data))
  IN  IF ~g1._doCache
        THEN [g |-> g1, counter |-> counter, cached |-> EmptyMap, threw |-> FALSE]
      ELSE IF throwAt # 0
        THEN [g |-> g2, counter |-> a.counter, cached |-> EmptyMap, threw |-> TRUE]
      ELSE [g |-> g2, counter |-> a.counter, cached |-> cached, threw |-> FALSE]

\* The entries at which a call of cacheReal on m can throw (0: none).
ThrowPoints(m) ==
  IF doCacheOf(parFixed[m]) THEN 0..Len(data) ELSE {0}

\* A direct call of Gauss::cacheReal( data ) on model m.
CacheReal(m, throwAt) ==
  LET r == cacheReal(m, gauss[m], parFixed[m], _cacheIdxReal, throwAt)
  IN  /\ r.counter <= MaxIdx
      /\ gauss' = [gauss EXCEPT ![m] = r.g]
      /\ _cacheIdxReal' = r.counter
      /\ ret' = [op |-> "cacheReal", m |-> m, threw |-> r.threw, val |-> r.cached]
      /\ UNCHANGED <<parFixed, _cacheR, _cacheC, NotGauss>>

\* PdfBase::cacheComplex: a Gauss model caches no complex values.
cacheComplex(m) == EmptyMap

\* std::map::insert( first, last ): a key already present keeps its value.
MapReplace(reg, new) == new
MapInsert(reg, new) ==
  [k \in (DOMAIN reg) \cup (DOMAIN new) |-> IF k \in DOMAIN reg THEN reg[k] ELSE new[k]]

\* Minimizer::cache
MinimizerCache(throwAt) ==
  LET r == cacheReal(Pdf, gauss[Pdf], parFixed[Pdf], _cacheIdxReal, throwAt)
  IN  /\ r.counter <= MaxIdx
      /\ gauss' = [gauss EXCEPT ![Pdf] = r.g]
      /\ _cacheIdxReal' = r.counter
      /\ _cacheR' = IF r.threw THEN _cacheR ELSE MapInsert(_cacheR, r.cached)
      /\ _cacheC' = IF r.threw THEN _cacheC ELSE MapInsert(_cacheC, cacheComplex(Pdf))
      /\ ret' = [op |-> "Minimizer::cache", m |-> Pdf, threw |-> r.threw, val |-> r.cached]
      /\ UNCHANGED <<parFixed, NotGauss>>

\* The values a double read outside a vector can have.
AnyDouble == {Inf} \cup (0..(2 * Scale))

\* The per-entry slice of the registry handed to evaluate: the value of
\* entry e under every published index.
Slice(reg, e) == [k \in DOMAIN reg |-> reg[k][e]]

\* Gauss::evaluate( vars, cacheR, cacheC ): the values the call can return.
\* Reading cacheR at an index that was never published is undefined.
evaluateCachedNoFlag(m, g, x, cacheR) ==
  IF g._cacheIdx \in DOMAIN cacheR THEN {cacheR[g._cacheIdx]}
  ELSE {evaluate(m, g, x)}
evaluateCached(m, g, x, cacheR) ==
  IF ~g._doCache THEN {evaluate(m, g, x)}
  ELSE IF g._cacheIdx \in DOMAIN cacheR THEN {cacheR[g._cacheIdx]}
  ELSE AnyDouble

\* The operations of a composite fit of the Gauss models: parameters are
\* fixed and released, the models and the adapter run their caching pass.
Next ==
  \/ \E m \in Models, p \in 1..2, f \in BOOLEAN : setFixed(m, p, f)
  \/ \E m \in Models : \E t \in ThrowPoints(m) : CacheReal(m, t)
  \/ \E t \in ThrowPoints(Pdf) : MinimizerCache(t)

Spec == Init /\ [][Next]_vars

\* The fit of the one model the adapter holds, whose limits change during
\* the session.
InitLimits == Init /\ \A m \in Models \ {Pdf} : \A p \in 1..2 : ~parFixed[m][p]

NextLimits ==
  \/ \E l \in LowerVals : setLowerLimit(Pdf, l)
  \/ \E u \in UpperVals : setUpperLimit(Pdf, u)
  \/ \E l \in LowerVals, u \in UpperVals : setLimits(Pdf, l, u)
  \/ unsetLowerLimit(Pdf)
  \/ unsetUpperLimit(Pdf)
  \/ unsetLimits(Pdf)
  \/ \E p \in 1..2, f \in BOOLEAN : setFixed(Pdf, p, f)
  \/ \E t \in ThrowPoints(Pdf) : CacheReal(Pdf, t)
  \/ \E t \in ThrowPoints(Pdf) : MinimizerCache(t)

SpecLimits == InitLimits /\ [][NextLimits]_vars

\* The same fit with mu and sigma kept fixed throughout the session.
InitFixed == InitLimits /\ doCacheOf(parFixed[Pdf])

NextFixed ==
  \/ \E l \in LowerVals : setLowerLimit(Pdf, l)
  \/ \E u \in UpperVals : setUpperLimit(Pdf, u)
  \/ \E l \in LowerVals, u \in UpperVals : setLimits(Pdf, l, u)
  \/ unsetLowerLimit(Pdf)
  \/ unsetUpperLimit(Pdf)
  \/ unsetLimits(Pdf)
  \/ \E t \in ThrowPoints(Pdf) : CacheReal(Pdf, t)
  \/ \E t \in ThrowPoints(Pdf) : MinimizerCache(t)

SpecFixed == InitFixed /\ [][NextFixed]_vars

\* -------------------------------------------------------------- Minimizer
\* The variables the Minimizer's up and setUp leave alone.
NotUp == <<data, gauss, parFixed, _cacheIdxReal, _cacheR, _cacheC, decay, ampFixed, argus>>

\* Values handed to Minimizer::setUp.
UpVals == (-2)..MaxUp

\* Minimizer::setUp
setUpLost(v) ==
  /\ _up' = _up
  /\ lastSetUp' = <<v>>
  /\ ret' = [op |-> "setUp", arg |-> v]
  /\ UNCHANGED NotUp
setUp(v) ==
  /\ _up' = v
  /\ lastSetUp' = <<v>>
  /\ ret' = [op |-> "setUp", arg |-> v]
  /\ UNCHANGED NotUp

\* Minimizer::up: the result of the call when _up is u.
upResult(u) ==
  IF u = UnsetUp THEN [op |-> "up", threw |-> TRUE,  val |-> 0]
                 ELSE [op |-> "up", threw |-> FALSE, val |-> u]

up ==
  /\ ret' = upResult(_up)
  /\ UNCHANGED <<_up, lastSetUp, NotUp>>

InitUp ==
  /\ Built
  /\ data = Dataset(0)
  /\ parFixed = [m \in Models |-> [p \in 1..2 |-> FALSE]]
  /\ decay = [_nDir |-> 0, _nCnj |-> 0, _nXed |-> <<0, 0>>, _fixedAmp |-> FALSE]
  /\ ampFixed = FALSE
  /\ argus = NewArgus(0)

NextUp ==
  \/ \E v \in UpVals : setUp(v)
  \/ up

SpecUp == InitUp /\ [][NextUp]_vars

\* ----------------------------------------------------------- Decay3BodyCP
\* The variables the Decay3BodyCP operations leave alone.
NotDecay == <<data, gauss, parFixed, _cacheIdxReal, _cacheR, _cacheC, _up, lastSetUp,
             argus>>

\* Values of the real norm components, and of the complex one as << re, im >>.
NormVals == 0..MaxNorm
CplxVals == {<<0, 0>>, <<1, -1>>, <<MaxNorm, 1>>}

\* Decay3BodyCP::setNormComponents( nDir, nCnj, nXed ) on model d, whose
\* amplitude reports isFixed() = fixed.
setNormComponents3Always(d, fixed, nDir, nCnj, nXed) ==
  [d EXCEPT !._fixedAmp = fixed, !._nDir = nDir, !._nCnj = nCnj, !._nXed = nXed]
setNormComponents3(d, fixed, nDir, nCnj, nXed) ==
  LET d1 == [d EXCEPT !._fixedAmp = fixed]
  IN  IF d1._fixedAmp
        THEN [d1 EXCEPT !._nDir = nDir, !._nCnj = nCnj, !._nXed = nXed]
        ELSE d1

\* Decay3BodyCP::setNormComponents( nDir, nXed )
setNormComponents2(d, fixed, nDir, nXed) ==
  LET d1 == [d EXCEPT !._fixedAmp = fixed]
  IN  IF d1._fixedAmp
        THEN [d1 EXCEPT !._nDir = nDir, !._nCnj = nDir, !._nXed = nXed]
        ELSE d1

SetNormComponents3(nDir, nCnj, nXed) ==
  /\ decay' = setNormComponents3(decay, ampFixed, nDir, nCnj, nXed)
  /\ ret' = [op |-> "setNormComponents3", nDir |-> nDir, nCnj |-> nCnj, nXed |-> nXed]
  /\ UNCHANGED <<ampFixed, NotDecay>>

SetNormComponents2(nDir, nXed) ==
  /\ decay' = setNormComponents2(decay, ampFixed, nDir, nXed)
  /\ ret' = [op |-> "setNormComponents2", nDir |-> nDir, nXed |-> nXed]
  /\ UNCHANGED <<ampFixed, NotDecay>>

\* The parameters of the amplitude are fixed or released.
setAmpFixed(fixed) ==
  /\ ampFixed' = fixed
  /\ ret' = NoRet
  /\ UNCHANGED <<decay, NotDecay>>

\* The decay model as built: its norm components and _fixedAmp hold whatever
\* the constructor and the first cache() left.
InitDecay ==
  /\ Built
  /\ data = Dataset(0)
  /\ parFixed = [m \in Models |-> [p \in 1..2 |-> FALSE]]
  /\ decay \in [_nDir : NormVals, _nCnj : NormVals, _nXed : CplxVals, _fixedAmp : BOOLEAN]
  /\ ampFixed \in BOOLEAN
  /\ argus = NewArgus(0)

NextDecay ==
  \/ \E a \in NormVals, b \in NormVals, c \in CplxVals : SetNormComponents3(a, b, c)
  \/ \E a \in NormVals, c \in CplxVals : SetNormComponents2(a, c)
  \/ \E f \in BOOLEAN : setAmpFixed(f)

SpecDecay == InitDecay /\ [][NextDecay]_vars
\* ------------------------------------------------------------ Argus calls
\* The variables the Argus operations leave alone.
NotArgus == <<data, gauss, parFixed, _cacheIdxReal, _cacheR, _cacheC, _up, lastSetUp,
              decay, ampFixed>>

\* Values of chi, limits handed to the Argus limit setters, and bounds
\* handed to Argus::area.
ChiVals == {0, 1}
ArgusLowerVals == {-1, 0, 3}
ArgusUpperVals == {-1, 4, 6}
AreaVals == {0, 3, 4, 5}

ArgusSetLowerLimit(lower) ==
  LET r == argusSetLowerLimit(argus, lower)
  IN  /\ argus' = r.a
      /\ ret' = [op |-> "Argus::setLowerLimit", lower |-> lower, threw |-> r.threw]
      /\ UNCHANGED NotArgus

ArgusSetUpperLimit(upper) ==
  LET r == argusSetUpperLimit(argus, upper)
  IN  /\ argus' = r.a
      /\ ret' = [op |-> "Argus::setUpperLimit", upper |-> upper, threw |-> r.threw]
      /\ UNCHANGED NotArgus

ArgusSetLimits(lower, upper) ==
  LET r == argusSetLimits(argus, lower, upper)
  IN  /\ argus' = r.a
      /\ ret' = [op |-> "Argus::setLimits", lower |-> lower, upper |-> upper,
                 threw |-> r.threw]
      /\ UNCHANGED NotArgus

\* Argus::unsetLowerLimit
ArgusUnsetLowerLimit ==
  /\ argus' = argusCache([argus EXCEPT !._hasLower = FALSE])
  /\ ret' = NoRet
  /\ UNCHANGED NotArgus

\* Argus::unsetUpperLimit
ArgusUnsetUpperLimit ==
  /\ argus' = argusCache([argus EXCEPT !._hasUpper = FALSE])
  /\ ret' = NoRet
  /\ UNCHANGED NotArgus

\* Argus::unsetLimits
ArgusUnsetLimits ==
  /\ argus' = argusCache([argus EXCEPT !._hasLower = FALSE, !._hasUpper = FALSE])
  /\ ret' = NoRet
  /\ UNCHANGED NotArgus

\* A call of Argus::area( min, max ).
ArgusArea(min, max) ==
  /\ ret' = [op |-> "Argus::area", min |-> min, max |-> max,
             val |-> argusArea(argus, min, max)]
  /\ UNCHANGED <<argus, NotArgus>>

InitArgus ==
  /\ Built
  /\ data = Dataset(0)
  /\ parFixed = [m \in Models |-> [p \in 1..2 |-> FALSE]]
  /\ decay = [_nDir |-> 0, _nCnj |-> 0, _nXed |-> <<0, 0>>, _fixedAmp |-> FALSE]
  /\ ampFixed = FALSE
  /\ argus \in {NewArgus(chi) : chi \in ChiVals}

NextArgus ==
  \/ \E l \in ArgusLowerVals : ArgusSetLowerLimit(l)
  \/ \E u \in ArgusUpperVals : ArgusSetUpperLimit(u)
  \/ \E l \in ArgusLowerVals, u \in ArgusUpperVals : ArgusSetLimits(l, u)
  \/ ArgusUnsetLowerLimit
  \/ ArgusUnsetUpperLimit
  \/ ArgusUnsetLimits
  \/ \E a \in AreaVals, b \in AreaVals : ArgusArea(a, b)

SpecArgus == InitArgus /\ [][NextArgus]_vars

\* ----------------------------------------------------------------- claims
\* The calls that run Gauss::cacheReal: a direct call, or through the adapter.
CacheOps == {"cacheReal", "Minimizer::cache"}

\* C1: the cache indices of the cacheable sub-models are pairwise distinct,
\* and the key a caching pass publishes is the index of its model, which no
\* other cacheable sub-model holds.
C1_CacheIdxUnique ==
  /\ \A m1 \in Models : \A m2 \in Models \ {m1} :
       (gauss[m1]._doCache /\ gauss[m2]._doCache)
         => gauss[m1]._cacheIdx # gauss[m2]._cacheIdx
  /\ (ret.op \in CacheOps /\ ~ret.threw) =>
       \A k \in DOMAIN ret.val :
         /\ k = gauss[ret.m]._cacheIdx
         /\ \A m2 \in Models \ {ret.m} :
              gauss[m2]._doCache => gauss[m2]._cacheIdx # k

\* Both sub-models are cacheable and the second has just published its key.
C1_Witness ==
  /\ \A m \in Models : gauss[m]._doCache
  /\ ret.op = "cacheReal" /\ ~ret.threw /\ ret.m # Pdf
  /\ DOMAIN ret.val # {}
  /\ DOMAIN _cacheR # {}

\* C2: right after Minimizer::cache with mu and sigma fixed, the cached path
\* fed the registry slice of an entry returns what evaluate( x ) returns for
\* that entry, for every entry of the dataset.
C2_CachedEqualsDirect ==
  (ret.op = "Minimizer::cache" /\ ~ret.threw /\ doCacheOf(parFixed[Pdf])) =>
    /\ gauss[Pdf]._doCache
    /\ \A e \in 1..Len(data) :
         evaluateCached(Pdf, gauss[Pdf], data[e], Slice(_cacheR, e))
           = {evaluate(Pdf, gauss[Pdf], data[e])}

\* The adapter has cached a second time, with a lower limit in effect.
C2_Witness ==
  /\ ret.op = "Minimizer::cache" /\ ~ret.threw
  /\ gauss[Pdf]._doCache /\ gauss[Pdf]._hasLower
  /\ Len(data) = DataSize
  /\ Cardinality(DOMAIN _cacheR) >= 2

\* C3: after every caching run on a model, its _doCache is true exactly when
\* mu and sigma are both fixed at that moment.
C3_DoCacheIffFixed ==
  ret.op \in CacheOps =>
    (gauss[ret.m]._doCache <=> (parFixed[ret.m][1] /\ parFixed[ret.m][2]))

\* A model that was cacheable in an earlier run (it holds index 1) has run
\* again with exactly one of its parameters released.
C3_Witness ==
  /\ ret.op = "cacheReal"
  /\ ~gauss[ret.m]._doCache
  /\ gauss[ret.m]._cacheIdx = 1
  /\ parFixed[ret.m][1] /\ ~parFixed[ret.m][2]

\* C4 as stated: a cacheReal that returns gives one key, the index the
\* counter stood at, with one value per entry in entry order, or, when a
\* parameter is floating, the empty mapping without taking an index.
C4_Original ==
  [][(ret'.op = "cacheReal" /\ ~ret'.threw) =>
       LET m == ret'.m IN
       IF parFixed[m][1] /\ parFixed[m][2]
         THEN /\ DOMAIN ret'.val = {_cacheIdxReal}
              /\ _cacheIdxReal' = _cacheIdxReal + 1
              /\ Len(ret'.val[_cacheIdxReal]) = Len(data)
              /\ \A e \in 1..Len(data) :
                   ret'.val[_cacheIdxReal][e] = evaluate(m, gauss'[m], data[e])
         ELSE /\ ret'.val = EmptyMap
              /\ _cacheIdxReal' = _cacheIdxReal]_vars

\* C4, amended: as stated when the dataset has at least one entry; on an
\* empty dataset with mu and sigma fixed the mapping returned is empty
\* although an index is taken from the counter.
C4_CacheRealResult ==
  [][(ret'.op = "cacheReal" /\ ~ret'.threw) =>
       LET m == ret'.m IN
       IF ~(parFixed[m][1] /\ parFixed[m][2])
         THEN /\ ret'.val = EmptyMap
              /\ _cacheIdxReal' = _cacheIdxReal
       ELSE IF Len(data) = 0
         THEN /\ ret'.val = EmptyMap
              /\ _cacheIdxReal' = _cacheIdxReal + 1
       ELSE /\ DOMAIN ret'.val = {_cacheIdxReal}
            /\ _cacheIdxReal' = _cacheIdxReal + 1
            /\ Len(ret'.val[_cacheIdxReal]) = Len(data)
            /\ \A e \in 1..Len(data) :
                 ret'.val[_cacheIdxReal][e] = evaluate(m, gauss'[m], data[e])]_vars

\* cacheReal has returned a full sequence under index 1, computed with both
\* limits in effect.
C4_Witness ==
  /\ ret.op = "cacheReal" /\ ~ret.threw
  /\ DOMAIN ret.val = {1}
  /\ Len(ret.val[1]) = DataSize
  /\ gauss[ret.m]._hasLower /\ gauss[ret.m]._hasUpper

C6_CacheIdempotent ==
  [][(ret.op = "Minimizer::cache" /\ ~ret.threw /\
      ret'.op = "Minimizer::cache" /\ ~ret'.threw)
       => (_cacheR' = _cacheR /\ _cacheC' = _cacheC)]_vars

\* C7: a caching pass run while mu or sigma is floating leaves _doCache
\* false, it stays false until the next pass, and while it is false the
\* cached path returns evaluate( x ) for every entry, whatever the registry
\* holds under the model's index.
C7_FloatingFallsBack ==
  [][/\ (ret'.op \in CacheOps /\ ~(parFixed[ret'.m][1] /\ parFixed[ret'.m][2]))
          => ~gauss'[ret'.m]._doCache
     /\ \A m \in Models :
          (~gauss[m]._doCache /\ ~(ret'.op \in CacheOps /\ ret'.m = m))
            => ~gauss'[m]._doCache
     /\ \A m \in Models :
          ~gauss'[m]._doCache =>
            \A e \in 1..Len(data') :
              evaluateCached(m, gauss'[m], data'[e], Slice(_cacheR', e))
                = {evaluate(m, gauss'[m], data'[e])}]_vars

\* The adapter's pass has just found a parameter floating while the registry
\* still holds, under the model's index, values of another norm.
C7_Witness ==
  /\ ret.op = "Minimizer::cache"
  /\ ~gauss[Pdf]._doCache
  /\ Len(data) > 0
  /\ gauss[Pdf]._cacheIdx \in DOMAIN _cacheR
  /\ _cacheR[gauss[Pdf]._cacheIdx][1] # evaluate(Pdf, gauss[Pdf], data[1])

\* C8: setNormComponents refreshes _fixedAmp to amp.isFixed(); when the
\* amplitude is fixed _nDir, _nCnj and _nXed become the values handed in (the
\* two-argument overload sets _nCnj to nDir), otherwise the three are left
\* as they were.
C8_SetNormComponents ==
  [][/\ ret'.op = "setNormComponents3" =>
          /\ decay'._fixedAmp = ampFixed
          /\ IF ampFixed
               THEN /\ decay'._nDir = ret'.nDir
                    /\ decay'._nCnj = ret'.nCnj
                    /\ decay'._nXed = ret'.nXed
               ELSE /\ decay'._nDir = decay._nDir
                    /\ decay'._nCnj = decay._nCnj
                    /\ decay'._nXed = decay._nXed
     /\ ret'.op = "setNormComponents2" =>
          /\ decay'._fixedAmp = ampFixed
          /\ IF ampFixed
               THEN /\ decay'._nDir = ret'.nDir
                    /\ decay'._nCnj = ret'.nDir
                    /\ decay'._nXed = ret'.nXed
               ELSE /\ decay'._nDir = decay._nDir
                    /\ decay'._nCnj = decay._nCnj
                    /\ decay'._nXed = decay._nXed]_vars

\* The three-argument setter was called while the amplitude was floating,
\* with values that differ from the ones the model holds.
C8_Witness ==
  /\ ret.op = "setNormComponents3"
  /\ ~ampFixed /\ ~decay._fixedAmp
  /\ decay._nDir # ret.nDir /\ decay._nCnj # ret.nCnj /\ decay._nXed # ret.nXed

\* C9: after a caching pass of the adapter that threw, the model either is
\* not on the cached path or its index is published in the registry.
C9_NoUnpublishedIdxAfterThrow ==
  (ret.op = "Minimizer::cache" /\ ret.threw) =>
    (gauss[Pdf]._doCache => gauss[Pdf]._cacheIdx \in DOMAIN _cacheR)

C11_NegativeBoundRejected ==
  [][/\ (ret'.op = "Argus::setLowerLimit" /\ ret'.lower < 0)
          => (ret'.threw /\ argus' = argus)
     /\ (ret'.op = "Argus::setUpperLimit" /\ ret'.upper < 0)
          => (ret'.threw /\ argus' = argus)
     /\ (ret'.op = "Argus::setLimits" /\ (ret'.lower < 0 \/ ret'.upper < 0))
          => (ret'.threw /\ argus' = argus)]_vars

\* setLimits was handed a valid lower and a negative upper bound while the
\* model held another lower limit, which it still holds.
C11_Witness ==
  /\ ret.op = "Argus::setLimits" /\ ret.threw
  /\ ret.lower >= 0 /\ ret.upper < 0
  /\ argus._hasLower /\ argus._lower # ret.lower
  /\ argus._hasUpper

\* The closed form of the Argus area between xmin = max( min, lower ) and
\* xmax = min( max, upper ), over the norm.
ArgusAreaOver(a, min, max) ==
  LET lower == IF a._hasLower THEN Max(a._lower, 0) ELSE 0
      upper == IF a._hasUpper THEN Min(a._upper, ArgusC) ELSE ArgusC
      xmin  == Max(min, lower)
      xmax  == Min(max, upper)
  IN  FDiv(ArgusIntegral(a.chi, ArgusArg(xmin), ArgusArg(xmax)) * Scale, a._norm)

\* C12: in every limit configuration Argus::area( min, max ) is the closed
\* form evaluated at xmin = max( min, lower ) and xmax = min( max, upper )
\* over the norm, and the area over a strict sub-range of the support is
\* less than the area over the full support.
C12_AreaOverGivenBounds ==
  ret.op = "Argus::area" =>
    /\ ret.val = ArgusAreaOver(argus, ret.min, ret.max)
    /\ (0 < ret.min /\ ret.min < ret.max /\ ret.max < ArgusC)
         => ret.val < argusArea(argus, 0, ArgusC)

\* C13: with mu and sigma kept fixed, whenever the model is on the cached
\* path the value the registry holds under its index for an entry is what
\* evaluate( x ) returns for that entry with the model's current norm.
C13_CachedMatchesCurrentNorm ==
  (gauss[Pdf]._doCache /\ gauss[Pdf]._cacheIdx \in DOMAIN _cacheR) =>
    \A e \in 1..Len(data) :
      _cacheR[gauss[Pdf]._cacheIdx][e] = evaluate(Pdf, gauss[Pdf], data[e])
====
